---- MODULE Spec2Model ----
(***************************************************************************)
(* Model of src/main.py: JpegImageLoader.load_images, JpegToTiffConverter  *)
(* .convert_images_to_tiff, ImageProcessor.process_images and main.        *)
(*                                                                         *)
(* The objects are built once (main, lines 148-150) and process_images is  *)
(* then called up to MaxRuns times on the same processor, each call        *)
(* followed by the caller's completion line (main, lines 153-154).         *)
(* The Pillow and os calls are the environment: each may return or raise,  *)
(* and the except clause of line 99 decides what is caught.                *)
(***************************************************************************)
EXTENDS Integers, Sequences, FiniteSets, TLC

\* ---------------------------------------------------------------- bounds
MaxFiles == 2          \* entries in one folder listing
MaxRuns == 2           \* process_images calls on the same processor

\* ------------------------------------------------------------- constants
DefaultDpi == 100      \* JpegImageLoader.__init__, JpegToTiffConverter.__init__

\* ------------------------------------------------------------ file names
\* A file name is a sequence of characters.
Names ==
    { <<"a", ".", "j", "p", "g">>,
      <<"B", ".", "J", "P", "E", "G">>,
      <<"c", ".", "P", "n", "G">>,
      <<"d", ".", "b", "m", "p">>,
      <<"j", "p", "g">> }

\* str.lower() on one character
lowerChar(c) ==
    CASE c = "B" -> "b"
      [] c = "E" -> "e"
      [] c = "G" -> "g"
      [] c = "J" -> "j"
      [] c = "N" -> "n"
      [] c = "P" -> "p"
      [] OTHER -> c

\* str.lower()
lower(s) == [i \in 1..Len(s) |-> lowerChar(s[i])]

\* str.endswith(suffix) for one suffix
endswith1(s, suffix) ==
    /\ Len(suffix) <= Len(s)
    /\ SubSeq(s, Len(s) - Len(suffix) + 1, Len(s)) = suffix

\* the tuple of line 88
Extensions ==
    { <<".", "j", "p", "g">>, <<".", "j", "p", "e", "g">>, <<".", "p", "n", "g">> }

\* str.endswith(tuple)
endswith(s, suffixes) == \E suffix \in suffixes : endswith1(s, suffix)

\* the test of line 88
SelectedNoLower(filename) == endswith(filename, Extensions)

Selected(filename) == endswith(lower(filename), Extensions)

\* ------------------------------------------------------------- DPI values
\* img.info['dpi'] is a pair of numbers, not always whole: the model keeps
\* them in half units (145 is 72.5).  NoDpi: the key is absent.
NoDpi == <<>>
MetaDpi == { <<144, 144>>, <<145, 147>> }

\* Python round(): half to even, on a value given in half units
round(h) ==
    IF h % 2 = 0 THEN h \div 2
    ELSE IF ((h - 1) \div 2) % 2 = 0 THEN (h - 1) \div 2 ELSE (h + 1) \div 2

\* DPI pairs a converter may be constructed with (line 27)
ConstructDpi == { <<DefaultDpi, DefaultDpi>>, <<72, 72>> }

\* exception classes: the ones line 99 names, and every other one
ExcClasses == {"OSError", "Other"}

CaughtNothing(cls) == FALSE

\* except (IOError, OSError), line 99
Caught(cls) == cls = "OSError"

\* os.listdir(folder_path): an enumeration without repeats
RECURSIVE SeqsUpTo(_)
SeqsUpTo(n) ==
    IF n = 0 THEN { <<>> }
    ELSE LET prev == SeqsUpTo(n - 1)
         IN prev \cup { Append(s, x) : s \in { t \in prev : Len(t) = n - 1 },
                                       x \in Names }

Distinct(s) == \A i, j \in 1..Len(s) : i # j => s[i] # s[j]

Listings == { s \in SeqsUpTo(MaxFiles) : Distinct(s) }

\* ------------------------------------------------------------------ state
VARIABLES
    pc,          \* stage of the current process_images call
    run,         \* number of process_images calls made so far
    listing,     \* os.listdir result of the current call
    idx,         \* position of the for loop of line 87 (next entry)
    image_list,  \* image_list of load_images: the file each image came from
    loader_dpi,  \* <<loader.dpi_x, loader.dpi_y>>
    conv_dpi,    \* <<converter.dpi_x, converter.dpi_y>>
    outfile,     \* the file at output_file
    console,     \* lines printed since the current call started
    opened,      \* names Image.open was called on in the current call
    meta_seen,   \* names opened in the current call that carried info['dpi'],
                 \* with that value: a set of <<name, dpi>>
    err,         \* the exception that ended the run, <<stage, class>>
    save_dpi,    \* dpi= argument of the save call of the current call
    loads,       \* load_images invocations of the current call
    converts     \* convert_images_to_tiff invocations of the current call

vars == << pc, run, listing, idx, image_list, loader_dpi, conv_dpi, outfile,
           console, opened, meta_seen, err, save_dpi, loads, converts >>

Absent == [state |-> "absent", pages |-> <<>>, dpi |-> <<>>]
Partial == [state |-> "partial", pages |-> <<>>, dpi |-> <<>>]
Written(pages, dpi) == [state |-> "written", pages |-> pages, dpi |-> dpi]

NoErr == <<>>
NoSave == <<>>

\* line 100: the file name and the text of the exception
ErrorLine(filename, stage, cls) == <<"Error loading image", filename, stage, cls>>
SavedLine == <<"testImages successfully saved to output_file">>
CompletedLine == <<"Conversion completed. Output saved as output_file.">>

\* main, lines 148-150: loader with the default DPI, converter as constructed
Init ==
    /\ pc = "idle"
    /\ run = 0
    /\ listing = <<>>
    /\ idx = 1
    /\ image_list = <<>>
    /\ loader_dpi = <<DefaultDpi, DefaultDpi>>
    /\ conv_dpi \in ConstructDpi
    /\ outfile = Absent
    /\ console = <<>>
    /\ opened = {}
    /\ meta_seen = {}
    /\ err = NoErr
    /\ save_dpi = NoSave
    /\ loads = 0
    /\ converts = 0

Range(s) == { s[i] : i \in 1..Len(s) }

\* ------------------------------------------------------------ load_images
\* line 93: img.info.get('dpi', (self.dpi_x, self.dpi_y)), in half units
dpi_info(meta, cur) == IF meta = NoDpi THEN <<2 * cur[1], 2 * cur[2]>> ELSE meta

\* line 94: self.dpi_x, self.dpi_y = round(dpi_info[0]), round(dpi_info[1])
NewDpi(meta, cur) == << round(dpi_info(meta, cur)[1]), round(dpi_info(meta, cur)[2]) >>

CaughtAtOpenOnly(stage, cls) == stage = "open" /\ Caught(cls)

\* the try of lines 90-98 covers Image.open and img.convert alike
CaughtAt(stage, cls) == Caught(cls)

Prepend(list, x) == <<x>> \o list

\* line 98: image_list.append(compressed_img)
append(list, x) == Append(list, x)

SwallowAndGoOn(stage, cls) ==
    /\ pc' = "converting"
    /\ err' = <<stage, cls>>

\* An exception no handler catches: process_images (lines 130-134) and main
\* (lines 152-154) have none, the process ends
Propagate(stage, cls) ==
    /\ pc' = "error"
    /\ err' = <<stage, cls>>

\* An exception of class cls raised at stage while loading filename:
\* lines 99-100 if the class is caught, else it leaves load_images and
\* process_images (no handler in either, nor in main).
Raise(filename, stage, cls) ==
    IF CaughtAt(stage, cls)
    THEN /\ console' = Append(console, ErrorLine(filename, stage, cls))
         /\ idx' = idx + 1
         /\ UNCHANGED << pc, err >>
    ELSE /\ Propagate(stage, cls)
         /\ UNCHANGED << console, idx >>

\* process_images may be called: first call, or the last call has returned
\* and the caller has printed its line
Callable ==
    /\ run < MaxRuns
    /\ \/ pc = "idle"
       \/ pc = "done" /\ CompletedLine \in Range(console)

\* process_images is called (line 130) and load_images lists the folder
\* (lines 86-87)
CallListdir ==
    /\ Callable
    /\ \E l \in Listings :
          /\ listing' = l
          /\ pc' = "loading"
    /\ run' = run + 1
    /\ loads' = 1
    /\ converts' = 0
    /\ idx' = 1
    /\ image_list' = <<>>
    /\ console' = <<>>
    /\ opened' = {}
    /\ meta_seen' = {}
    /\ save_dpi' = NoSave
    /\ UNCHANGED << loader_dpi, conv_dpi, outfile, err >>

\* os.listdir raises (folder missing, not a directory): outside the try
CallListdirRaises ==
    /\ Callable
    /\ \E cls \in ExcClasses : Propagate("listdir", cls)
    /\ run' = run + 1
    /\ loads' = 1
    /\ converts' = 0
    /\ listing' = <<>>
    /\ idx' = 1
    /\ image_list' = <<>>
    /\ console' = <<>>
    /\ opened' = {}
    /\ meta_seen' = {}
    /\ save_dpi' = NoSave
    /\ UNCHANGED << loader_dpi, conv_dpi, outfile >>

\* lines 87-88: an entry whose name does not pass the test
SkipEntry ==
    /\ pc = "loading"
    /\ idx <= Len(listing)
    /\ ~Selected(listing[idx])
    /\ idx' = idx + 1
    /\ UNCHANGED << pc, run, listing, image_list, loader_dpi, conv_dpi, outfile,
                    console, opened, meta_seen, err, save_dpi, loads, converts >>

\* lines 89-91, 99-100: Image.open raises
OpenRaises ==
    /\ pc = "loading"
    /\ idx <= Len(listing)
    /\ Selected(listing[idx])
    /\ opened' = opened \cup { listing[idx] }
    /\ \E cls \in ExcClasses : Raise(listing[idx], "open", cls)
    /\ UNCHANGED << run, listing, image_list, loader_dpi, conv_dpi, outfile,
                    meta_seen, save_dpi, loads, converts >>

\* lines 89-98: the file opens, the DPI pair is updated, convert succeeds
LoadOk ==
    /\ pc = "loading"
    /\ idx <= Len(listing)
    /\ Selected(listing[idx])
    /\ opened' = opened \cup { listing[idx] }
    /\ \E meta \in MetaDpi \cup { NoDpi } :
          /\ loader_dpi' = NewDpi(meta, loader_dpi)
          /\ meta_seen' = IF meta = NoDpi THEN meta_seen
                          ELSE meta_seen \cup { <<listing[idx], meta>> }
    /\ image_list' = append(image_list, listing[idx])
    /\ idx' = idx + 1
    /\ UNCHANGED << pc, run, listing, conv_dpi, outfile, console, err, save_dpi,
                    loads, converts >>

\* lines 89-97, 99-100: the file opens, the DPI pair is updated, then
\* img.convert raises
ConvertRaises ==
    /\ pc = "loading"
    /\ idx <= Len(listing)
    /\ Selected(listing[idx])
    /\ opened' = opened \cup { listing[idx] }
    /\ \E meta \in MetaDpi \cup { NoDpi } :
          /\ loader_dpi' = NewDpi(meta, loader_dpi)
          /\ meta_seen' = IF meta = NoDpi THEN meta_seen
                          ELSE meta_seen \cup { <<listing[idx], meta>> }
    /\ \E cls \in ExcClasses : Raise(listing[idx], "convert", cls)
    /\ UNCHANGED << run, listing, image_list, conv_dpi, outfile, save_dpi,
                    loads, converts >>

\* ---------------------------------------------------------- process_images
KeepConverterDpi(returned, held) == held

\* lines 132-133: the converter's fields take the pair load_images returned
PassDpi(returned, held) == returned

\* line 102 and lines 130-134: load_images returns, the DPI pair is copied,
\* the converter is invoked
LoadReturn ==
    /\ pc = "loading"
    /\ idx > Len(listing)
    /\ conv_dpi' = PassDpi(loader_dpi, conv_dpi)
    /\ pc' = "converting"
    /\ converts' = converts + 1
    /\ UNCHANGED << run, listing, idx, image_list, loader_dpi, outfile, console,
                    opened, meta_seen, err, save_dpi, loads >>

\* --------------------------------------------------- convert_images_to_tiff
AlwaysTruthy(list) == TRUE

\* line 44: if image_list
Truthy(list) == list # <<>>

\* line 44 with an empty list: nothing is done
ConvertEmpty ==
    /\ pc = "converting"
    /\ ~Truthy(image_list)
    /\ pc' = "done"
    /\ UNCHANGED << run, listing, idx, image_list, loader_dpi, conv_dpi, outfile,
                    console, opened, meta_seen, err, save_dpi, loads, converts >>

\* lines 46-49: the save returns, the confirmation line is printed
SaveOk ==
    /\ pc = "converting"
    /\ Truthy(image_list)
    /\ save_dpi' = conv_dpi
    /\ outfile' = Written(image_list, conv_dpi)
    /\ console' = Append(console, SavedLine)
    /\ pc' = "done"
    /\ UNCHANGED << run, listing, idx, image_list, loader_dpi, conv_dpi, opened,
                    meta_seen, err, loads, converts >>

\* lines 46-48: the save raises; the file is untouched or left partly written
SaveRaises ==
    /\ pc = "converting"
    /\ Truthy(image_list)
    /\ save_dpi' = conv_dpi
    /\ outfile' \in { outfile, Partial }
    /\ \E cls \in ExcClasses : Propagate("save", cls)
    /\ UNCHANGED << run, listing, idx, image_list, loader_dpi, conv_dpi, console,
                    opened, meta_seen, loads, converts >>

\* --------------------------------------------------------------------- main
\* line 154: printed once process_images has returned
MainCompleted ==
    /\ pc = "done"
    /\ CompletedLine \notin Range(console)
    /\ console' = Append(console, CompletedLine)
    /\ UNCHANGED << pc, run, listing, idx, image_list, loader_dpi, conv_dpi,
                    outfile, opened, meta_seen, err, save_dpi, loads, converts >>

Next ==
    \/ CallListdir
    \/ CallListdirRaises
    \/ SkipEntry
    \/ OpenRaises
    \/ LoadOk
    \/ ConvertRaises
    \/ LoadReturn
    \/ ConvertEmpty
    \/ SaveOk
    \/ SaveRaises
    \/ MainCompleted

Spec == Init /\ [][Next]_vars

\* ===================================================================== claims
Returned == pc \in {"converting", "done"}

ErrorLines == { l \in Range(console) : l[1] = "Error loading image" }

Reported(n) == \E l \in ErrorLines : l[2] = n

\* the two lines that state the output was saved
SaveStatingLines == { SavedLine, CompletedLine }

\* ------------------------------------------------------------------------ C1
\* files of the current call that were opened and not skipped on an error
LoadedOk == { n \in opened : ~Reported(n) }

InEnumerationOrder == SelectSeq(listing, LAMBDA n : n \in LoadedOk)

\* C1: once load_images has returned, the image list is the subsequence of
\* the folder enumeration made of the files that loaded successfully, and a
\* run that saves writes exactly those pages, in that order, one per file.
C1_PagesAreLoadedFilesInOrder ==
    /\ Returned => image_list = InEnumerationOrder
    /\ SavedLine \in Range(console) =>
          /\ outfile.state = "written"
          /\ outfile.pages = InEnumerationOrder
          /\ Len(outfile.pages) = Cardinality(LoadedOk)

C1_Witness ==
    /\ pc = "done"
    /\ SavedLine \in Range(console)
    /\ Len(outfile.pages) = 2
    /\ outfile.pages = listing

\* ------------------------------------------------------------------------ C2
\* C2: a convert_images_to_tiff call on an empty image list saves nothing:
\* the output file, absent or present, is left as it was, no line is printed,
\* no exception is raised and the call returns.
C2_EmptyBatchIsNoOp ==
    [][ (pc = "converting" /\ image_list = <<>>) =>
            /\ pc' = "done"
            /\ outfile' = outfile
            /\ console' = console
            /\ err' = NoErr
            /\ save_dpi' = NoSave ]_vars

\* every matching file skipped, with a file of an earlier run in place
C2_Witness ==
    /\ pc = "done"
    /\ image_list = <<>>
    /\ opened # {}
    /\ run = 2
    /\ outfile.state = "written"
    /\ save_dpi = NoSave

\* ------------------------------------------------------------------------ C3
CasePairs ==
    { <<"b", "B">>, <<"e", "E">>, <<"g", "G">>, <<"j", "J">>, <<"m", "M">>,
      <<"n", "N">>, <<"p", "P">> }

SameIgnoringCase(c, d) == c = d \/ <<c, d>> \in CasePairs \/ <<d, c>> \in CasePairs

\* the name ends, compared case-insensitively, in .jpg, .jpeg or .png
HasImageExt(n) ==
    \E e \in Extensions :
        /\ Len(n) >= Len(e)
        /\ \A i \in 1..Len(e) : SameIgnoringCase(n[Len(n) - Len(e) + i], e[i])

C3_Inv ==
    /\ \A k \in 1..Len(listing) : listing[k] \in opened => HasImageExt(listing[k])
    /\ \A k \in 1..(idx - 1) : HasImageExt(listing[k]) => listing[k] \in opened
    /\ \A n \in Range(image_list) : HasImageExt(n)
    /\ \A n \in Range(outfile.pages) : HasImageExt(n)
    /\ \A l \in ErrorLines : HasImageExt(l[2])
    /\ (pc = "error" /\ err[1] \in {"open", "convert"}) => HasImageExt(listing[idx])

C3_Step ==
    [][ (pc = "loading" /\ idx <= Len(listing) /\ ~HasImageExt(listing[idx])) =>
            /\ pc' = "loading"
            /\ idx' = idx + 1
            /\ opened' = opened
            /\ loader_dpi' = loader_dpi
            /\ image_list' = image_list
            /\ console' = console ]_vars

\* C3: an entry is opened if and only if its name ends, ignoring case, in
\* .jpg, .jpeg or .png; any other entry is passed over without being opened,
\* without an error, without a change of the running DPI pair, and is never
\* a page.
C3_OnlyImageExtensionsSelected == []C3_Inv /\ C3_Step

\* an upper-case name was opened and another entry was passed over
C3_Witness ==
    /\ pc = "loading"
    /\ idx = 3
    /\ ~HasImageExt(listing[1])
    /\ listing[2] = <<"B", ".", "J", "P", "E", "G">>
    /\ opened = { listing[2] }

\* ------------------------------------------------------------------------ C7
StageEdges ==
    { <<"loading", "converting">>, <<"loading", "error">>,
      <<"converting", "done">>, <<"converting", "error">> }

C7_Inv ==
    /\ pc = "idle" => loads = 0 /\ converts = 0
    /\ pc = "loading" => loads = 1 /\ converts = 0
    /\ Returned => loads = 1 /\ converts = 1 /\ idx = Len(listing) + 1
    /\ pc = "error" =>
          /\ loads = 1
          /\ err[1] \in {"listdir", "open", "convert"} =>
                converts = 0 /\ save_dpi = NoSave
          /\ err[1] = "save" => converts = 1

C7_Step ==
    [][ /\ run' = run => (pc' = pc \/ <<pc, pc'>> \in StageEdges)
        /\ run' # run =>
              /\ run' = run + 1
              /\ pc \in {"idle", "done"}
              /\ pc' \in {"loading", "error"}
        /\ pc = "error" => UNCHANGED vars ]_vars

\* C7: within one process_images call the stages run idle, loading,
\* converting, done and never go back; the loader is invoked once and has
\* finished when the converter is invoked, the converter is invoked at most
\* once, and an exception at either stage ends in the error state, where
\* nothing more happens (no converter call after a loader exception).
C7_StagesInSequence == []C7_Inv /\ C7_Step

\* a loader exception ended the run with the converter never invoked
C7_Witness ==
    /\ pc = "error"
    /\ err[1] = "convert"
    /\ converts = 0
    /\ run = 2

\* ------------------------------------------------------------------------ C8
\* C8: the dpi handed to the save call, and stored in the file it writes, is
\* the pair load_images returned in the same call, whatever the converter
\* held before.
C8_SaveDpiIsLoaderDpi ==
    /\ save_dpi # NoSave => save_dpi = loader_dpi
    /\ SavedLine \in Range(console) => outfile.dpi = loader_dpi

\* second call: the converter held the pair of the first call, another one
\* is saved
C8_Witness ==
    /\ run = 2
    /\ SavedLine \in Range(console)
    /\ save_dpi = <<72, 74>>
    /\ outfile.dpi = <<72, 74>>
    /\ meta_seen # {}

\* ------------------------------------------------------------------------ C4
\* C4 as stated: no failure while loading a selected file ends the run.
C4_AnyLoadFailureIsSkipped ==
    ~(pc = "error" /\ err[1] \in {"open", "convert"})

C4_Inv ==
    /\ (pc = "error" /\ err[1] \in {"open", "convert"}) => err[2] # "OSError"
    /\ \A l \in ErrorLines :
          /\ l[4] = "OSError"
          /\ l[2] \in opened
          /\ l[2] \notin Range(image_list)
    /\ Returned => \A k \in 1..Len(listing) :
                      HasImageExt(listing[k]) => listing[k] \in opened

C4_Step ==
    [][ (pc = "loading" /\ console' # console) =>
            /\ pc' = "loading"
            /\ idx' = idx + 1
            /\ image_list' = image_list
            /\ console' = Append(console,
                                 ErrorLine(listing[idx], console'[Len(console')][3],
                                           "OSError")) ]_vars

\* C4 amended: an IOError/OSError raised while loading a selected file never
\* ends the run: the file gets its error line, is left out of the image list,
\* the loop goes on to the next entry, every later selected file is opened
\* and load_images returns.  Only an exception of another class ends the run.
C4_OSErrorIsSkipped == []C4_Inv /\ C4_Step

\* the first file failed, the second one was still loaded, the call returned
C4_Witness ==
    /\ pc = "done"
    /\ Len(listing) = 2
    /\ Reported(listing[1])
    /\ image_list = << listing[2] >>

\* ------------------------------------------------------------------------ C9
\* C9 as stated: a failure of img.convert never leaves load_images.
C9_ConvertFailureIsSkipped ==
    ~(pc = "error" /\ err[1] = "convert")

ConvertErrorLines == { l \in ErrorLines : l[3] = "convert" }

C9_Inv ==
    /\ (pc = "error" /\ err[1] = "convert") => err[2] = "Other"
    /\ \A l \in ConvertErrorLines :
          /\ l[4] = "OSError"
          /\ l[2] \notin Range(image_list)

C9_Step ==
    [][ (pc = "loading" /\ ConvertErrorLines' # ConvertErrorLines) =>
            /\ pc' = "loading"
            /\ idx' = idx + 1
            /\ image_list' = image_list ]_vars

\* C9 amended: an IOError/OSError raised by img.convert takes the path of a
\* decode failure (error line, file not appended, next entry); an exception
\* of any other class raised by img.convert leaves load_images and ends the
\* run.
C9_ConvertOSErrorIsSkipped == []C9_Inv /\ C9_Step

C9_Witness ==
    /\ pc = "done"
    /\ \E l \in ConvertErrorLines : l[2] = listing[1]
    /\ Len(listing) = 2
    /\ listing[2] \in Range(image_list)

\* ------------------------------------------------------------------------ C5
\* positions of the image list whose file carried DPI metadata
WithMeta == { i \in 1..Len(image_list) : \E m \in MetaDpi : <<image_list[i], m>> \in meta_seen }

LastWithMeta == CHOOSE i \in WithMeta : \A j \in WithMeta : j <= i

MetaOf(n) == CHOOSE m \in MetaDpi : <<n, m>> \in meta_seen

\* C5: the pair load_images returns is the rounded metadata of the last image
\* of the returned list that carried metadata, or (100, 100) if none did.
C5_DpiFromLastLoadedImage ==
    Returned =>
        loader_dpi = IF WithMeta = {} THEN <<DefaultDpi, DefaultDpi>>
                     ELSE << round(MetaOf(image_list[LastWithMeta])[1]),
                             round(MetaOf(image_list[LastWithMeta])[2]) >>

\* ------------------------------------------------------------------------ C6
\* C6: when no image of the current call carried DPI metadata, load_images
\* returns (100, 100), on a later call of the same loader too.
C6_DefaultDpiEachCall ==
    (Returned /\ meta_seen = {}) => loader_dpi = <<DefaultDpi, DefaultDpi>>

\* ----------------------------------------------------------------------- C10
\* C10: a line stating that the output was saved is printed only if the save
\* call was made in this run and returned.
C10_SavedLinesOnlyAfterSave ==
    \A l \in Range(console) :
        l \in SaveStatingLines => (save_dpi # NoSave /\ pc # "error")

====
